---- MODULE Spec2Model ----
(***************************************************************************)
(* A model of autoky.py: the keyword extraction batch (main's image        *)
(* branch, run_for_file, process_keywords), the CSV reader                 *)
(* (parse_csv_file) and the viewer's filter state (ImageViewer).           *)
(*                                                                         *)
(* Python strings are sequences of one-character strings; the operators    *)
(* on them (strip, split, lower, comparison, the two regular expressions)  *)
(* are computed character by character.                                    *)
(***************************************************************************)
EXTENDS Integers, Sequences, FiniteSets, TLC

VARIABLES
    \* process_keywords, called on its own
    raw_text, sha256_hex, cleaned, kw_pc,
    \* parse_csv_file
    csv_rows, row, out, csv_pc,
    \* the text of a CSV file written by an extraction run
    csv_text,
    \* main's extraction branch and run_for_file
    paths, imgs, img_i, ex_pc, image_b64, resp, stdout_rows, stderr_lines,
    started, finished,
    \* main's split of the arguments, the records of its viewer branch and
    \* the module's PIL_AVAILABLE
    txt_files, other, all_data, PIL_AVAILABLE,
    \* ImageViewer
    all_images, keyword_entry, rank_var, partial_match, filtered_images,
    duplicates_count, current_index,
    \* ImageViewer's display state, the clipboard and the file last handed to
    \* the desktop's opener
    zoom_percent, fit_mode, fullscreen, clipboard, opened

kwVars == <<raw_text, sha256_hex, cleaned, kw_pc>>
csvVars == <<csv_rows, row, out, csv_pc, csv_text>>
mainVars == <<txt_files, other, all_data, PIL_AVAILABLE>>
exVars == <<paths, imgs, img_i, ex_pc, image_b64, resp, stdout_rows,
            stderr_lines, started, finished, mainVars>>
displayVars == <<zoom_percent, fit_mode, fullscreen, clipboard, opened>>
viewVars == <<all_images, keyword_entry, rank_var, partial_match,
              filtered_images, duplicates_count, current_index, displayVars>>
vars == <<kwVars, csvVars, exVars, viewVars>>

----------------------------------------------------------------------------
(* Bounds of the model. *)

\* how many comma-separated parts a raw model text is built from
MaxParts == 3
\* how many fields follow the file name in a generated CSV row
MaxFields == 3
\* how many command-line arguments an extraction run gets
MaxArgs == 2
\* how many records the viewer is constructed with
MaxImages == 3

----------------------------------------------------------------------------
(* Python str: characters, str.lower, str.strip, comparison, str.split. *)

\* the code points of the characters the model's texts are written in
Code ==
    ("\t" :> 9) @@ ("\n" :> 10) @@ ("\r" :> 13) @@ (" " :> 32) @@
    ("\"" :> 34) @@ ("*" :> 42) @@ ("," :> 44) @@ ("-" :> 45) @@
    ("." :> 46) @@ ("/" :> 47) @@ ("0" :> 48) @@ ("1" :> 49) @@
    ("2" :> 50) @@ ("3" :> 51) @@ ("4" :> 52) @@ ("5" :> 53) @@
    ("6" :> 54) @@ ("7" :> 55) @@ ("8" :> 56) @@ ("9" :> 57) @@ (":" :> 58) @@
    ("A" :> 65) @@ ("B" :> 66) @@ ("C" :> 67) @@ ("D" :> 68) @@
    ("E" :> 69) @@ ("F" :> 70) @@ ("G" :> 71) @@ ("H" :> 72) @@
    ("I" :> 73) @@ ("J" :> 74) @@ ("K" :> 75) @@ ("L" :> 76) @@
    ("M" :> 77) @@ ("N" :> 78) @@ ("O" :> 79) @@ ("P" :> 80) @@
    ("Q" :> 81) @@ ("R" :> 82) @@ ("S" :> 83) @@ ("T" :> 84) @@
    ("U" :> 85) @@ ("V" :> 86) @@ ("W" :> 87) @@ ("X" :> 88) @@
    ("Y" :> 89) @@ ("Z" :> 90) @@ ("[" :> 91) @@ ("]" :> 93) @@ ("_" :> 95) @@ ("a" :> 97) @@
    ("b" :> 98) @@ ("c" :> 99) @@ ("d" :> 100) @@ ("e" :> 101) @@
    ("f" :> 102) @@ ("g" :> 103) @@ ("h" :> 104) @@ ("i" :> 105) @@
    ("j" :> 106) @@ ("k" :> 107) @@ ("l" :> 108) @@ ("m" :> 109) @@
    ("n" :> 110) @@ ("o" :> 111) @@ ("p" :> 112) @@ ("q" :> 113) @@
    ("r" :> 114) @@ ("s" :> 115) @@ ("t" :> 116) @@ ("u" :> 117) @@
    ("v" :> 118) @@ ("w" :> 119) @@ ("x" :> 120) @@ ("y" :> 121) @@
    ("z" :> 122)

\* F(v) with v evaluated once, whatever the number of times F uses it
Once(v, F(_)) == CHOOSE r \in {F(x) : x \in {v}} : TRUE

\* the character with code point n
Chr(n) == CHOOSE c \in DOMAIN Code : Code[c] = n

IsUpper(c) == Code[c] >= 65 /\ Code[c] <= 90
IsDigit(c) == Code[c] >= 48 /\ Code[c] <= 57
IsSpace(c) == c \in {" ", "\t", "\n", "\r"}
IsHexChar(c) ==
    \/ IsDigit(c)
    \/ (Code[c] >= 65 /\ Code[c] <= 70)
    \/ (Code[c] >= 97 /\ Code[c] <= 102)

\* str.lower on one character
LowerChar(c) == IF IsUpper(c) THEN Chr(Code[c] + 32) ELSE c

\* str.lower
Lower(s) == [i \in 1..Len(s) |-> LowerChar(s[i])]

\* str.strip: the text between the first and the last non-space character
StripOf(s, keep) ==
    IF keep = {} THEN <<>>
    ELSE LET lo == CHOOSE i \in keep : \A j \in keep : i <= j
             hi == CHOOSE i \in keep : \A j \in keep : i >= j
         IN SubSeq(s, lo, hi)

Strip(text) ==
    Once(text, LAMBDA s :
        Once({i \in 1..Len(s) : ~IsSpace(s[i])}, LAMBDA keep : StripOf(s, keep)))

\* Python's < on two strings: lexicographic by code point
RECURSIVE StrLess(_, _)
StrLess(a, b) ==
    IF b = <<>> THEN FALSE
    ELSE IF a = <<>> THEN TRUE
    ELSE IF Code[Head(a)] # Code[Head(b)] THEN Code[Head(a)] < Code[Head(b)]
    ELSE StrLess(Tail(a), Tail(b))

\* Python's "sub in s" on strings
Contains(sub, s) ==
    \E i \in 1..(Len(s) - Len(sub) + 1) : SubSeq(s, i, i + Len(sub) - 1) = sub

\* str.split(","): the pieces between the commas, empty pieces included;
\* piece k lies between comma k-1 and comma k of the text
SplitAt(s, commas) ==
    LET Nth(k) == CHOOSE i \in commas : Cardinality({j \in commas : j < i}) = k - 1
        n == Cardinality(commas)
    IN [k \in 1..n + 1 |->
           SubSeq(s, IF k = 1 THEN 1 ELSE Nth(k - 1) + 1,
                     IF k = n + 1 THEN Len(s) ELSE Nth(k) - 1)]

SplitComma(text) ==
    Once(text, LAMBDA s :
        Once({i \in 1..Len(s) : s[i] = ","}, LAMBDA commas : SplitAt(s, commas)))

\* ",".join(pieces)
RECURSIVE JoinComma(_)
JoinComma(pieces) ==
    IF pieces = <<>> THEN <<>>
    ELSE IF Len(pieces) = 1 THEN pieces[1]
    ELSE pieces[1] \o <<",">> \o JoinComma(Tail(pieces))

\* s repeated n times
RECURSIVE Repeat(_, _)
Repeat(s, n) == IF n = 0 THEN <<>> ELSE s \o Repeat(s, n - 1)

\* the elements of a sequence
Range(s) == {s[i] : i \in 1..Len(s)}

\* the sequences over S of length at most n
SeqsUpTo(S, n) == UNION {[1..k -> S] : k \in 0..n}

----------------------------------------------------------------------------
(* process_keywords *)

\* [kw.strip() for kw in raw_text.split(",") if kw.strip()]
KeywordParts(text) ==
    Once(SplitComma(text), LAMBDA pieces :
        SelectSeq([i \in 1..Len(pieces) |-> Strip(pieces[i])],
                  LAMBDA kw : kw # <<>>))

\* DedupFrom with the seen set keyed by the spelling, not its lower case
RECURSIVE DedupFrom_CaseSensitive(_, _, _)
DedupFrom_CaseSensitive(parts, seen, acc) ==
    IF parts = <<>> THEN acc
    ELSE IF Head(parts) \notin seen
         THEN DedupFrom_CaseSensitive(Tail(parts), seen \cup {Head(parts)},
                                      Append(acc, Head(parts)))
         ELSE DedupFrom_CaseSensitive(Tail(parts), seen, acc)

\* the loop over parts: keep a part unless its lower-cased form was seen
RECURSIVE DedupFrom(_, _, _)
DedupFrom(parts, seen, acc) ==
    IF parts = <<>> THEN acc
    ELSE LET kw == Head(parts)
             low == Lower(kw)
         IN IF low \notin seen
            THEN DedupFrom(Tail(parts), seen \cup {low}, Append(acc, kw))
            ELSE DedupFrom(Tail(parts), seen, acc)

DedupKeywords(parts) == Once(parts, LAMBDA ps : DedupFrom(ps, {}, <<>>))

\* list.sort(key=str.lower): a stable sort, so element i goes behind every
\* element with a smaller key and every earlier element with an equal key
SortedByLower(s) ==
    LET Before(j, i) ==
            \/ StrLess(Lower(s[j]), Lower(s[i]))
            \/ (Lower(s[j]) = Lower(s[i]) /\ j < i)
        Place(i) == 1 + Cardinality({j \in 1..Len(s) : Before(j, i)})
    IN [p \in 1..Len(s) |-> s[CHOOSE i \in 1..Len(s) : Place(i) = p]]

SortByLower(list) == Once(list, LAMBDA s : SortedByLower(s))

\* process_keywords that also drops the parts holding a RANK token
process_keywords_DropRank(text, sha) ==
    Append(SortByLower(DedupKeywords(
               SelectSeq(KeywordParts(text),
                         LAMBDA kw : ~Contains(<<"r", "a", "n", "k", " ">>, Lower(kw))))),
           sha)

process_keywords(text, sha) ==
    Append(SortByLower(DedupKeywords(KeywordParts(text))), sha)

----------------------------------------------------------------------------
(* process_keywords on its own: every raw text, every hash *)

\* the pieces a raw model text is joined from
TextPieces ==
    { <<"c", "a", "t">>, <<"C", "a", "t">>, <<" ", "d", "o", "g", " ">>,
      <<"C", "A", "T", " ">>, <<>>, <<" ">>,
      <<"R", "A", "N", "K", " ", "8">>,
      <<"s", "k", "y">> }

\* a SHA-256 hex digest: 64 lower-case hex characters
DeadBeefHash == Repeat(<<"d", "e", "a", "d", "b", "e", "e", "f">>, 8)

\* the hash strings process_keywords is called with: a digest, and a string
\* that is also a keyword
HashStrings == {DeadBeefHash, <<"c", "a", "t">>}

RawTexts == {JoinComma(ps) : ps \in SeqsUpTo(TextPieces, MaxParts)}

KwIdle ==
    /\ raw_text = <<>>
    /\ sha256_hex = <<>>
    /\ cleaned = <<>>
    /\ kw_pc = "idle"

CallProcessKeywords ==
    /\ kw_pc = "call"
    /\ cleaned' = process_keywords(raw_text, sha256_hex)
    /\ kw_pc' = "done"
    /\ UNCHANGED <<raw_text, sha256_hex>>
    /\ UNCHANGED <<csvVars, exVars, viewVars>>

----------------------------------------------------------------------------
(* The file system an extraction run sees, and pathlib on it. *)

Cwd == <<"/", "w">>

\* the regular files on disk, by absolute path
DiskFiles == { <<"/", "w", "/", "a", ".", "j", "p", "g">>,
               <<"/", "w", "/", "d", "/", "c", ".", "G", "I", "F">>,
               <<"/", "w", "/", "d", "/", "n", "o", "t", "e", "s", ".", "t", "x", "t">>,
               <<"/", "w", "/", "l", "i", "s", "t", ".", "t", "x", "t">>,
               <<"/", "w", "/", "e", "m", "p", "t", "y", ".", "t", "x", "t">> }

\* the directories on disk; the second one has an image suffix
DiskDirs == { <<"/", "w", "/", "d">>,
              <<"/", "w", "/", "d", "/", "e", ".", "p", "n", "g">> }

SUPPORTED_EXTS ==
    { <<".", "j", "p", "g">>, <<".", "j", "p", "e", "g">>,
      <<".", "p", "n", "g">>, <<".", "g", "i", "f">>,
      <<".", "w", "e", "b", "p">>, <<".", "b", "m", "p">>,
      <<".", "t", "i", "f">>, <<".", "t", "i", "f", "f">> }

\* Path.resolve(): an absolute path stays, a relative one is under Cwd, and
\* the empty path is Cwd itself
Resolve(p) ==
    IF p = <<>> THEN Cwd
    ELSE IF p[1] = "/" THEN p ELSE Cwd \o <<"/">> \o p

PathIsFile(p) == Resolve(p) \in DiskFiles
PathIsDir(p) == Resolve(p) \in DiskDirs \cup {Cwd}
PathExists(p) == PathIsFile(p) \/ PathIsDir(p)

\* the last position of character c in s, 0 when there is none
LastIndexOf(s, c) ==
    LET at == {i \in 1..Len(s) : s[i] = c}
    IN IF at = {} THEN 0 ELSE CHOOSE i \in at : \A j \in at : i >= j

\* Path.name: the final component
PathName(p) == SubSeq(p, LastIndexOf(p, "/") + 1, Len(p))

\* Path.suffix: the name from its last dot, unless the dot leads or ends it
PathSuffix(p) ==
    LET name == PathName(p)
        i == LastIndexOf(name, ".")
    IN IF i > 1 /\ i < Len(name) THEN SubSeq(name, i, Len(name)) ELSE <<>>

HasSupportedExt(p) == Lower(PathSuffix(p)) \in SUPPORTED_EXTS

IsPrefix(a, b) == Len(a) <= Len(b) /\ SubSeq(b, 1, Len(a)) = a

\* Path.rglob("*"): every entry below directory p, spelled from p
RGlobAll(p) ==
    LET root == Resolve(p) \o <<"/">>
    IN { p \o <<"/">> \o SubSeq(f, Len(root) + 1, Len(f)) :
           f \in {g \in DiskFiles \cup DiskDirs : IsPrefix(root, g)} }

\* Path().glob(a) for a pattern "*<tail>": the entries of Cwd whose name ends
\* with the tail; any other pattern that names nothing matches nothing
GlobCwd(a) ==
    IF a = <<>> \/ a[1] # "*" THEN {}
    ELSE LET tail == SubSeq(a, 2, Len(a))
             root == Cwd \o <<"/">>
             names == { SubSeq(f, Len(root) + 1, Len(f)) :
                          f \in {g \in DiskFiles \cup DiskDirs :
                                   /\ IsPrefix(root, g)
                                   /\ LastIndexOf(g, "/") = Len(root)} }
         IN { n \in names :
                /\ Len(tail) <= Len(n)
                /\ SubSeq(n, Len(n) - Len(tail) + 1, Len(n)) = tail }

find_images_in_path(p) ==
    IF PathIsFile(p) THEN (IF HasSupportedExt(p) THEN {p} ELSE {})
    ELSE IF PathIsDir(p) THEN {q \in RGlobAll(p) : HasSupportedExt(q)}
    ELSE {}

\* sorted(S) for a set of strings
SortedOf(S) ==
    LET Place(x) == 1 + Cardinality({y \in S : StrLess(y, x)})
    IN [p \in 1..Cardinality(S) |-> CHOOSE x \in S : Place(x) = p]

SortedStrings(strings) == Once(strings, LAMBDA S : SortedOf(S))

\* the files found for one argument
FilesOfArg(a) ==
    IF PathExists(a) THEN find_images_in_path(a)
    ELSE UNION {find_images_in_path(m) : m \in GlobCwd(a)}

expand_wildcards_and_folders(args) ==
    LET files == UNION {FilesOfArg(args[i]) : i \in 1..Len(args)}
    IN SortedStrings({Resolve(p) : p \in files})

----------------------------------------------------------------------------
(* hashlib.sha256(...).hexdigest(), json values, extract_text_from_response *)

\* the length of a SHA-256 hex digest, and of the token parse_csv_file
\* takes as a hash
HashLen == 64

HexDigits == <<"0", "1", "2", "3", "4", "5", "6", "7",
               "8", "9", "a", "b", "c", "d", "e", "f">>

RECURSIVE WeightedSum(_, _, _)
WeightedSum(data, i, k) ==
    IF i > Len(data) THEN 0
    ELSE Code[data[i]] * (i + k) + WeightedSum(data, i + 1, k)

\* hexdigest() of the SHA-256 of data, kept to what the program relies on:
\* a function of the data alone that yields HashLen lower-case hex digits
Sha256Hex(data) ==
    [k \in 1..HashLen |->
        HexDigits[((WeightedSum(data, 1, k) + k * k + Len(data)) % 16) + 1]]

\* the bytes of the regular files
FileBytes(p) ==
    IF p = <<"/", "w", "/", "a", ".", "j", "p", "g">>
    THEN <<"i", "m", "g", "1">> ELSE <<"i", "m", "g", "2">>

file_sha256_hex(p) == Sha256Hex(FileBytes(Resolve(p)))

\* parsed JSON values, tagged with their Python type
JNull == [t |-> "null", v |-> <<>>]
JStr(s) == [t |-> "str", v |-> s]
JDict(d) == [t |-> "dict", v |-> d]
JList(l) == [t |-> "list", v |-> l]

\* dict.get(k)
DictGet(j, k) == IF k \in DOMAIN j.v THEN j.v[k] ELSE JNull

IsJStr(j) == j.t = "str"
IsJDict(j) == j.t = "dict"

Extracted(s) == [kind |-> "text", text |-> s]
ExtractedNone == [kind |-> "none", text |-> <<>>]
\* first.get on a value that is no dict: AttributeError
ExtractRaises == [kind |-> "raise", text |-> <<>>]

\* the fallback keys, in the order the loop tries them
FallbackKeys == <<"text", "output", "content">>

RECURSIVE ExtractFallback(_, _)
ExtractFallback(j, i) ==
    IF i > Len(FallbackKeys) THEN ExtractedNone
    ELSE IF IsJStr(DictGet(j, FallbackKeys[i]))
         THEN Extracted(DictGet(j, FallbackKeys[i]).v)
         ELSE ExtractFallback(j, i + 1)

\* the choices branch, entered with a non-empty list
ExtractChoices(j, ch) ==
    LET first == ch.v[1]
        msg == IF IsJDict(first) THEN DictGet(first, "message") ELSE JNull
    IN IF IsJDict(msg) /\ IsJStr(DictGet(msg, "content"))
       THEN Extracted(DictGet(msg, "content").v)
       ELSE IF ~IsJDict(first) THEN ExtractRaises
       ELSE IF IsJStr(DictGet(first, "content"))
            THEN Extracted(DictGet(first, "content").v)
            ELSE ExtractFallback(j, 1)

extract_text_from_response(j) ==
    IF ~IsJDict(j) THEN ExtractedNone
    ELSE IF IsJStr(DictGet(j, "response")) THEN Extracted(DictGet(j, "response").v)
    ELSE LET m == DictGet(j, "message")
             ch == DictGet(j, "choices")
         IN IF IsJDict(m) /\ IsJStr(DictGet(m, "content"))
            THEN Extracted(DictGet(m, "content").v)
            ELSE IF ch.t = "list" /\ ch.v # <<>>
                 THEN ExtractChoices(j, ch)
                 ELSE ExtractFallback(j, 1)

----------------------------------------------------------------------------
(* Extraction mode: main's image branch and run_for_file. *)

\* the command-line arguments of an extraction run
Args == { <<"a", ".", "j", "p", "g">>, <<"/", "w", "/", "a", ".", "j", "p", "g">>,
          <<"d">>, <<"*", ".", "j", "p", "g">>,
          <<"d", "/", "c", ".", "G", "I", "F">>,
          <<"m", "i", "s", "s", "i", "n", "g", ".", "p", "n", "g">> }

ArgLists == {a \in SeqsUpTo(Args, MaxArgs) : a # <<>>}

\* str(n) for n >= 0
RECURSIVE IntToStr(_)
IntToStr(n) ==
    IF n < 10 THEN <<Chr(48 + n)>>
    ELSE IntToStr(n \div 10) \o <<Chr(48 + (n % 10))>>

\* what do_request and json.loads can come to for one file: a body that
\* parses to a JSON value, a body that does not parse, HTTPError, URLError,
\* or another exception (a read timeout)
ChatBody(text) == JDict([message |-> JDict([role |-> JStr(<<"a", "s", "s", "i", "s", "t", "a", "n", "t">>),
                                            content |-> JStr(text)])])

PlainText == <<"s", "k", "y", ",", " ", "C", "a", "t", ",", "c", "a", "t">>

RankText == <<"b", "l", "u", "e", ",", " ", "s", "k", "y", ",", " ", "R", "A", "N", "K", " ", "8", ",", " ", "p", "h", "o", "t", "o">>

Outcome(kind, body, code, reason) ==
    [kind |-> kind, body |-> body, code |-> code, reason |-> reason]

NoOutcome == Outcome("none", JNull, 0, <<>>)

Outcomes ==
    { Outcome("ok", ChatBody(RankText), 200, <<>>),
      Outcome("ok", ChatBody(PlainText), 200, <<>>),
      Outcome("ok", ChatBody(<<>>), 200, <<>>),
      Outcome("ok", JDict([choices |-> JList(<<JStr(<<"x">>)>>)]), 200, <<>>),
      Outcome("badjson", JNull, 200, <<"E", "x", "p", "e", "c", "t", "i", "n", "g", " ", "v", "a", "l", "u", "e">>),
      Outcome("http", JNull, 500, <<>>),
      Outcome("url", JNull, 0, <<"C", "o", "n", "n", "e", "c", "t", "i", "o", "n", " ", "r", "e", "f", "u", "s", "e", "d">>),
      Outcome("other", JNull, 0, <<"t", "i", "m", "e", "d", " ", "o", "u", "t">>) }

NoTextRow(full_path) == <<full_path, <<"[", "N", "o", " ", "t", "e", "x", "t", " ", "e", "x", "t", "r", "a", "c", "t", "e", "d", "]">>>>
HttpErrorRow(full_path, code) ==
    <<full_path, <<"H", "T", "T", "P", " ", "E", "r", "r", "o", "r", " ">> \o IntToStr(code)>>
ConnectionErrorRow(full_path, reason) ==
    <<full_path, <<"C", "o", "n", "n", "e", "c", "t", "i", "o", "n", " ", "E", "r", "r", "o", "r", ":", " ">> \o reason>>
ErrorRow(full_path, e) == <<full_path, <<"E", "r", "r", "o", "r", ":", " ">> \o e>>

\* the row the try block and its handlers write for a file whose request
\* came to outcome o
ResponseRow(path, o) ==
    LET full_path == Resolve(path)
    IN CASE o.kind = "http" -> HttpErrorRow(full_path, o.code)
         [] o.kind = "url" -> ConnectionErrorRow(full_path, o.reason)
         [] o.kind = "other" -> ErrorRow(full_path, o.reason)
         [] o.kind = "badjson" -> ErrorRow(full_path, o.reason)
         [] OTHER ->
            LET extracted == extract_text_from_response(o.body)
            IN IF extracted.kind = "raise"
               THEN ErrorRow(full_path, <<"s", "t", "r", " ", "o", "b", "j", "e", "c", "t", " ", "h", "a", "s", " ", "n", "o", " ", "a", "t", "t", "r", "i", "b", "u", "t", "e", " ", "g", "e", "t">>)
               ELSE IF extracted.kind = "none" \/ extracted.text = <<>>
               THEN NoTextRow(full_path)
               ELSE <<full_path>>
                    \o process_keywords(extracted.text, file_sha256_hex(path))

ReadFailedLine(full_path) ==
    full_path \o <<":", " ", "F", "a", "i", "l", "e", "d", " ", "t", "o", " ",
                   "r", "e", "a", "d", " ", "o", "r", " ", "e", "n", "c", "o",
                   "d", "e", " ", "i", "m", "a", "g", "e">>

\* the early return taken for an abort of the whole run
AfterReadFailure_Abort == "exit1"

\* where run_for_file's early return on a read failure leaves main
AfterReadFailure == "loop"

\* main's own variables before main has run; Pillow is installed
MainIdle ==
    /\ txt_files = <<>>
    /\ other = <<>>
    /\ all_data = <<>>
    /\ PIL_AVAILABLE = TRUE

ExIdle ==
    /\ MainIdle
    /\ paths = <<>>
    /\ imgs = <<>>
    /\ img_i = 0
    /\ ex_pc = "idle"
    /\ image_b64 = <<>>
    /\ resp = NoOutcome
    /\ stdout_rows = <<>>
    /\ stderr_lines = <<>>
    /\ started = <<>>
    /\ finished = <<>>

\* main, up to the for loop: resolve the images, exit with 1 when none
Main ==
    /\ ex_pc = "main"
    /\ imgs' = expand_wildcards_and_folders(paths)
    /\ IF imgs' = <<>>
       THEN /\ ex_pc' = "exit1"
            /\ stderr_lines' = Append(stderr_lines, <<"N", "o", " ", "m", "a", "t", "c", "h", "i", "n", "g", " ", "i", "m", "a", "g", "e", "s", " ", "f", "o", "u", "n", "d", ".">>)
       ELSE /\ ex_pc' = "loop"
            /\ UNCHANGED stderr_lines
    /\ UNCHANGED <<paths, img_i, image_b64, resp, stdout_rows, started,
                   finished>>
    /\ UNCHANGED mainVars
    /\ UNCHANGED <<kwVars, csvVars, viewVars>>

\* for img in imgs: the next file enters run_for_file
NextFile ==
    /\ ex_pc = "loop"
    /\ img_i < Len(imgs)
    /\ img_i' = img_i + 1
    /\ started' = Append(started, imgs[img_i + 1])
    /\ image_b64' = <<>>
    /\ resp' = NoOutcome
    /\ ex_pc' = "read"
    /\ UNCHANGED <<paths, imgs, stdout_rows, stderr_lines, finished>>
    /\ UNCHANGED mainVars
    /\ UNCHANGED <<kwVars, csvVars, viewVars>>

\* the loop is exhausted: main returns
LoopEnd ==
    /\ ex_pc = "loop"
    /\ img_i = Len(imgs)
    /\ ex_pc' = "exit0"
    /\ UNCHANGED <<paths, imgs, img_i, image_b64, resp, stdout_rows,
                   stderr_lines, started, finished>>
    /\ UNCHANGED mainVars
    /\ UNCHANGED <<kwVars, csvVars, viewVars>>

\* open and base64-encode the image; a failure prints to stderr and returns
ReadImage ==
    /\ ex_pc = "read"
    /\ \/ /\ PathIsFile(imgs[img_i])
          /\ image_b64' = FileBytes(imgs[img_i])
          /\ ex_pc' = "request"
          /\ UNCHANGED <<stderr_lines, finished>>
       \/ /\ image_b64' = <<>>
          /\ stderr_lines' = Append(stderr_lines, ReadFailedLine(imgs[img_i]))
          /\ finished' = Append(finished, imgs[img_i])
          /\ ex_pc' = AfterReadFailure
    /\ UNCHANGED <<paths, imgs, img_i, resp, stdout_rows, started>>
    /\ UNCHANGED mainVars
    /\ UNCHANGED <<kwVars, csvVars, viewVars>>

\* do_request: blocks until the request returns, fails or times out
DoRequest ==
    /\ ex_pc = "request"
    /\ \E o \in Outcomes : resp' = o
    /\ ex_pc' = "respond"
    /\ UNCHANGED <<paths, imgs, img_i, image_b64, stdout_rows, stderr_lines,
                   started, finished>>
    /\ UNCHANGED mainVars
    /\ UNCHANGED <<kwVars, csvVars, viewVars>>

\* the rest of the try block and the except clauses: one row is written
WriteRow ==
    /\ ex_pc = "respond"
    /\ stdout_rows' = Append(stdout_rows, ResponseRow(imgs[img_i], resp))
    /\ finished' = Append(finished, imgs[img_i])
    /\ ex_pc' = "loop"
    /\ UNCHANGED <<paths, imgs, img_i, image_b64, resp, stderr_lines, started>>
    /\ UNCHANGED mainVars
    /\ UNCHANGED <<kwVars, csvVars, viewVars>>

\* the parsed response bodies extract_text_from_response is applied to: a
\* JSON object in which each of the keys the function looks at is absent or
\* holds one of the shapes it tells apart
Absent == [t |-> "absent", v |-> <<>>]

ResponseValues == <<Absent, JStr(<<"r", " ", "s", "k", "y">>), JNull>>
MessageValues ==
    <<Absent, JDict([content |-> JStr(<<"m", " ", "s", "k", "y">>)]), JDict([role |-> JStr(<<"u", "s", "e", "r">>)]),
     JStr(<<"m">>)>>
ChoicesValues ==
    <<Absent, JList(<<>>),
     JList(<<JDict([message |-> JDict([content |-> JStr(<<"c", "m", " ", "s", "k", "y">>)])])>>),
     JList(<<JDict([content |-> JStr(<<"c", "c", " ", "s", "k", "y">>)])>>),
     JList(<<JDict([index |-> JNull])>>),
     JList(<<JStr(<<"x">>)>>),
     JStr(<<"c">>)>>
TextValues == <<Absent, JStr(<<"t", " ", "s", "k", "y">>)>>
OutputValues == <<Absent, JStr(<<"o", " ", "s", "k", "y">>)>>
ContentValues == <<Absent, JStr(<<"n", " ", "s", "k", "y">>), JNull>>

\* the JSON object with the keys that are present
JObject(r, m, c, t, o, n) ==
    LET all == [response |-> r, message |-> m, choices |-> c, text |-> t,
                output |-> o, content |-> n]
    IN JDict([k \in {k \in DOMAIN all : all[k].t # "absent"} |-> all[k]])

\* values that are no JSON object
NonObjects == <<JNull, JStr(<<"s", "k", "y">>), JList(<<JStr(<<"s", "k", "y">>)>>)>>

\* run_for_file with the response of one file read and parsed
ResponseParsed ==
    /\ paths = << <<"a", ".", "j", "p", "g">> >>
    /\ imgs = expand_wildcards_and_folders(paths)
    /\ img_i = 1
    /\ ex_pc = "respond"
    /\ txt_files = <<>> /\ other = paths /\ all_data = <<>>
    /\ PIL_AVAILABLE = TRUE
    /\ image_b64 = FileBytes(imgs[1])
    /\ \/ \E r \in DOMAIN ResponseValues, m \in DOMAIN MessageValues,
               c \in DOMAIN ChoicesValues, t \in DOMAIN TextValues,
               o \in DOMAIN OutputValues, n \in DOMAIN ContentValues :
              resp = Outcome("ok",
                             JObject(ResponseValues[r], MessageValues[m],
                                     ChoicesValues[c], TextValues[t],
                                     OutputValues[o], ContentValues[n]),
                             200, <<>>)
       \/ \E i \in DOMAIN NonObjects : resp = Outcome("ok", NonObjects[i], 200, <<>>)
    /\ stdout_rows = <<>>
    /\ stderr_lines = <<>>
    /\ started = imgs
    /\ finished = <<>>

----------------------------------------------------------------------------
(* parse_csv_file *)

RankWord == <<"R", "A", "N", "K">>

\* the first position after i that holds no white space
RECURSIVE SkipSpaces(_, _)
SkipSpaces(item, i) ==
    IF i <= Len(item) /\ IsSpace(item[i]) THEN SkipSpaces(item, i + 1) ELSE i

\* the last position of the run of digits that starts at i
RECURSIVE DigitsEnd(_, _)
DigitsEnd(item, i) ==
    IF i + 1 <= Len(item) /\ IsDigit(item[i + 1])
    THEN DigitsEnd(item, i + 1) ELSE i

\* RANK\s+(\d+), ignoring case, matches at position i of item
RankMatchesAt(item, i) ==
    /\ i + Len(RankWord) <= Len(item)
    /\ Lower(SubSeq(item, i, i + Len(RankWord) - 1)) = Lower(RankWord)
    /\ IsSpace(item[i + Len(RankWord)])
    /\ LET j == SkipSpaces(item, i + Len(RankWord))
       IN j <= Len(item) /\ IsDigit(item[j])

\* re.search(r"RANK\s+(\d+)", item, re.IGNORECASE) finds a match
HasRankToken(item) == \E i \in 1..Len(item) : RankMatchesAt(item, i)

\* int() of a string of decimal digits
RECURSIVE DigitsToInt(_)
DigitsToInt(d) ==
    IF d = <<>> THEN 0
    ELSE 10 * DigitsToInt(SubSeq(d, 1, Len(d) - 1)) + (Code[d[Len(d)]] - 48)

\* int(m.group(1)) of the leftmost match
RankOf(item) ==
    LET at == {i \in 1..Len(item) : RankMatchesAt(item, i)}
        i == CHOOSE k \in at : \A l \in at : k <= l
        j == SkipSpaces(item, i + Len(RankWord))
    IN DigitsToInt(SubSeq(item, j, DigitsEnd(item, j)))

\* the hash pattern without its upper-case range: [a-f0-9]{64}
IsHashToken_LowerOnly(item) ==
    /\ Len(item) = HashLen
    /\ \A i \in 1..Len(item) : IsHexChar(item[i]) /\ ~IsUpper(item[i])

\* re.fullmatch(r"[a-fA-F0-9]{64}", item)
IsHashToken(item) ==
    /\ Len(item) = HashLen
    /\ \A i \in 1..Len(item) : IsHexChar(item[i])

\* (c.strip() for c in row[1:] if c.strip())
RowItems(r) ==
    LET fields == Tail(r)
        stripped == [i \in 1..Len(fields) |-> Strip(fields[i])]
    IN SelectSeq(stripped, LAMBDA c : c # <<>>)

\* rank before any RANK token is seen
DefaultRank == 1

\* the loop body without the continue after a RANK token
ParseItem_KeepRank(st, item) ==
    IF HasRankToken(item)
    THEN [st EXCEPT !.rank = RankOf(item), !.kws = Append(st.kws, item)]
    ELSE IF IsHashToken(item) THEN [st EXCEPT !.h = Lower(item)]
    ELSE [st EXCEPT !.kws = Append(st.kws, item)]

\* the loop body with keywords de-duplicated by lower case
ParseItem_Dedup(st, item) ==
    IF HasRankToken(item) THEN [st EXCEPT !.rank = RankOf(item)]
    ELSE IF IsHashToken(item) THEN [st EXCEPT !.h = Lower(item)]
    ELSE IF \E k \in Range(st.kws) : Lower(k) = Lower(item) THEN st
    ELSE [st EXCEPT !.kws = Append(st.kws, item)]

\* one pass of the loop over the items: st is (kws, rank, h)
ParseItem(st, item) ==
    IF HasRankToken(item) THEN [st EXCEPT !.rank = RankOf(item)]
    ELSE IF IsHashToken(item) THEN [st EXCEPT !.h = Lower(item)]
    ELSE [st EXCEPT !.kws = Append(st.kws, item)]

RECURSIVE ParseItems(_, _)
ParseItems(st, items) ==
    IF items = <<>> THEN st
    ELSE ParseItems(ParseItem(st, Head(items)), Tail(items))

\* the first of Path(filename), csv_path.parent / filename and
\* Path.cwd() / filename that exists, resolved; <<>> for None.  The CSV file
\* lies in Cwd, so the three name the same file
FullPathOf(filename) ==
    IF PathExists(filename) THEN Resolve(filename) ELSE <<>>

\* ImageData(filename, kws, rank, h), with full_path
ImageData(filename, kws, rank, h) ==
    [filename |-> filename, keywords |-> kws, rank |-> rank,
     hash_code |-> h, full_path |-> FullPathOf(filename)]

\* the record made from a row of at least two fields
ParseRow(r) ==
    LET filename == r[1]
        st == ParseItems([kws |-> <<>>, rank |-> DefaultRank, h |-> <<>>],
                         RowItems(r))
        h == IF st.h = <<>> THEN Sha256Hex(filename) ELSE st.h
    IN ImageData(filename, st.kws, st.rank, h)

----------------------------------------------------------------------------
(* parse_csv_file on a file: the rows csv.reader yields, one by one *)

UpperHash == Repeat(<<"D", "E", "A", "D", "B", "E", "E", "F">>, 8)
DigitsHash == Repeat(<<"0", "1", "2", "3", "4", "5", "6", "7", "8", "9", "a", "b", "c", "d", "e", "f">>, 4)
\* one character short of a hash
ShortHex == SubSeq(DeadBeefHash, 1, HashLen - 1)

\* the first field of a row: a name that is not on disk and one that is
NameFields == { <<"p", "h", "o", "t", "o", "1", ".", "j", "p", "g">>,
                <<"a", ".", "j", "p", "g">> }

\* the fields that follow it
ItemFields ==
    { <<"c", "a", "t">>, <<"C", "a", "t">>, <<" ", "d", "o", "g", " ">>, <<>>,
      <<"R", "A", "N", "K", " ", "7">>,
      <<"r", "a", "n", "k", " ", " ", "3">>,
      <<"F", "r", "a", "n", "k", " ", "1", "2", "t", "h">>,
      <<"R", "A", "N", "K">>,
      UpperHash, DigitsHash, ShortHex }

\* photo1.jpg,cat,Cat,RANK 7,dog,<hash>
ExampleRow ==
    << <<"p", "h", "o", "t", "o", "1", ".", "j", "p", "g">>,
       <<"c", "a", "t">>, <<"C", "a", "t">>, <<"R", "A", "N", "K", " ", "7">>,
       <<"d", "o", "g">>, DeadBeefHash >>

\* a.jpg,cat,RANK 0 and a.jpg,RANK 11
RankZeroRow ==
    << <<"a", ".", "j", "p", "g">>, <<"c", "a", "t">>,
       <<"R", "A", "N", "K", " ", "0">> >>
RankElevenRow ==
    << <<"a", ".", "j", "p", "g">>, <<"R", "A", "N", "K", " ", "1", "1">> >>

CsvRows ==
    {<<n>> \o items : n \in NameFields, items \in SeqsUpTo(ItemFields, MaxFields)}
    \cup {ExampleRow, RankZeroRow, RankElevenRow, <<>>}

\* rows of at most one field after the name, for files of two rows
ShortRows == {r \in CsvRows : Len(r) <= 2}

\* a row on which the body of the try block raises: a field over the csv
\* module's field size limit, a RANK number over int's digit limit, or bytes
\* of a later read buffer that are not UTF-8
BadRow == << <<"<raises>">> >>

\* "Error parsing CSV file ...", printed by the except clause
ParseErrorLine ==
    <<"E", "r", "r", "o", "r", " ", "p", "a", "r", "s", "i", "n", "g", " ",
      "C", "S", "V", " ", "f", "i", "l", "e">>

\* the whole of parse_csv_file on the rows of a file: the list it returns
RECURSIVE ParseFileFrom(_, _)
ParseFileFrom(rows, acc) ==
    IF rows = <<>> THEN acc
    ELSE IF Head(rows) = BadRow THEN acc
    ELSE IF Len(Head(rows)) < 2 THEN ParseFileFrom(Tail(rows), acc)
    ELSE ParseFileFrom(Tail(rows), Append(acc, ParseRow(Head(rows))))

parse_csv_file(rows) == ParseFileFrom(rows, <<>>)

\* files whose reading fails: at once, after one row, between two rows
FailingFiles ==
    {<<BadRow>>} \cup {<<r, BadRow>> : r \in ShortRows}
    \cup {<<r, BadRow, ExampleRow>> : r \in ShortRows}

CsvFiles ==
    {<<r>> : r \in CsvRows} \cup {<<r1, r2>> : r1 \in ShortRows, r2 \in ShortRows}
    \cup FailingFiles

CsvIdle ==
    /\ csv_text = <<>>
    /\ csv_rows = <<>>
    /\ row = <<>>
    /\ out = <<>>
    /\ csv_pc = "idle"

\* one pass of "for row in csv.reader(f)"
ReadRow ==
    /\ csv_pc = "reading"
    /\ csv_rows # <<>>
    /\ Head(csv_rows) # BadRow
    /\ row' = Head(csv_rows)
    /\ csv_rows' = Tail(csv_rows)
    /\ out' = IF Len(row') < 2 THEN out ELSE Append(out, ParseRow(row'))
    /\ UNCHANGED <<csv_pc, csv_text>>
    /\ UNCHANGED <<kwVars, exVars, viewVars>>

\* the reader is exhausted: return out
ReturnOut ==
    /\ csv_pc = "reading"
    /\ csv_rows = <<>>
    /\ csv_pc' = "returned"
    /\ UNCHANGED <<csv_rows, row, out, csv_text>>
    /\ UNCHANGED <<kwVars, exVars, viewVars>>

\* the try block raises: the except clause prints the error and the function
\* returns out as it stands
ReadFails ==
    /\ csv_pc = "reading"
    /\ csv_rows # <<>>
    /\ Head(csv_rows) = BadRow
    /\ stderr_lines' = Append(stderr_lines, ParseErrorLine)
    /\ csv_pc' = "returned"
    /\ UNCHANGED <<csv_rows, row, out, csv_text>>
    /\ UNCHANGED <<paths, imgs, img_i, ex_pc, image_b64, resp, stdout_rows,
                   started, finished, mainVars>>
    /\ UNCHANGED <<kwVars, viewVars>>

----------------------------------------------------------------------------
(* csv.writer and csv.reader in their default dialect; a row written by an *)
(* extraction run and read back by parse_csv_file                          *)

\* the characters that make the writer quote a field: the delimiter, the
\* quote character and the characters of the line terminator
NeedsQuote(field) ==
    \E i \in 1..Len(field) : field[i] \in {",", "\"", "\r", "\n"}

\* the field with every quote character doubled
RECURSIVE DoubleQuotes(_)
DoubleQuotes(field) ==
    IF field = <<>> THEN <<>>
    ELSE (IF Head(field) = "\"" THEN <<"\"", "\"">> ELSE <<Head(field)>>)
         \o DoubleQuotes(Tail(field))

\* a field written with no quoting at all
CsvField_Unquoted(field) == field

\* a field as the writer puts it out
CsvField(field) ==
    IF NeedsQuote(field)
    THEN <<"\"">> \o DoubleQuotes(field) \o <<"\"">>
    ELSE field

\* writer.writerow(fields): the fields joined by commas, then "\r\n"
CsvWriteRow(fields) ==
    JoinComma([i \in 1..Len(fields) |-> CsvField(fields[i])]) \o <<"\r", "\n">>

\* one character through the reader's state machine; st is the state, field
\* and rec the field and record read so far, rows the records finished
CsvReadChar(c, a) ==
    LET endField == [a EXCEPT !.rec = Append(a.rec, a.field), !.field = <<>>,
                              !.st = "start_field"]
        endRecord == [a EXCEPT !.rows = Append(a.rows, Append(a.rec, a.field)),
                               !.rec = <<>>, !.field = <<>>, !.st = "eat_crnl"]
        newline == c \in {"\r", "\n"}
    IN CASE a.st = "start_record" ->
              IF newline THEN [a EXCEPT !.rows = Append(a.rows, <<>>),
                                        !.st = "eat_crnl"]
              ELSE IF c = "\"" THEN [a EXCEPT !.st = "in_quoted"]
              ELSE IF c = "," THEN endField
              ELSE [a EXCEPT !.field = <<c>>, !.st = "in_field"]
         [] a.st = "start_field" ->
              IF newline THEN endRecord
              ELSE IF c = "\"" THEN [a EXCEPT !.st = "in_quoted"]
              ELSE IF c = "," THEN endField
              ELSE [a EXCEPT !.field = <<c>>, !.st = "in_field"]
         [] a.st = "in_field" ->
              IF newline THEN endRecord
              ELSE IF c = "," THEN endField
              ELSE [a EXCEPT !.field = Append(a.field, c)]
         [] a.st = "in_quoted" ->
              IF c = "\"" THEN [a EXCEPT !.st = "quote_in_quoted"]
              ELSE [a EXCEPT !.field = Append(a.field, c)]
         [] a.st = "quote_in_quoted" ->
              IF c = "\"" THEN [a EXCEPT !.field = Append(a.field, c),
                                         !.st = "in_quoted"]
              ELSE IF newline THEN endRecord
              ELSE IF c = "," THEN endField
              ELSE [a EXCEPT !.field = Append(a.field, c), !.st = "in_field"]
         [] OTHER ->
              \* eat_crnl: the rest of the line terminator, then a new record
              IF newline THEN a
              ELSE IF c = "\"" THEN [a EXCEPT !.st = "in_quoted"]
              ELSE IF c = "," THEN endField
              ELSE [a EXCEPT !.field = <<c>>, !.st = "in_field"]

\* the characters lo..hi of the text through the state machine, one after
\* another from state a (halved, to keep the evaluation shallow)
RECURSIVE CsvReadSpan(_, _, _, _)
CsvReadSpan(text, lo, hi, a) ==
    IF lo > hi THEN a
    ELSE IF lo = hi THEN CsvReadChar(text[lo], a)
    ELSE LET mid == (lo + hi) \div 2
         IN Once(CsvReadSpan(text, lo, mid, a),
                 LAMBDA b : CsvReadSpan(text, mid + 1, hi, b))

\* the records at the end of the text: one not yet terminated is finished
CsvReadEnd(a) ==
    IF a.st \in {"start_record", "eat_crnl"} THEN a.rows
    ELSE Append(a.rows, Append(a.rec, a.field))

\* the rows csv.reader yields for the text of a file opened with newline=""
CsvReadRows(text) ==
    Once(text, LAMBDA t :
        CsvReadEnd(CsvReadSpan(t, 1, Len(t),
                               [st |-> "start_record", field |-> <<>>,
                                rec |-> <<>>, rows |-> <<>>])))

\* the pieces of the model texts of a round trip: keywords of either letter
\* case, a RANK token, a keyword with quote characters and one with a line
\* break inside
RoundTripPieces ==
    { <<"c", "a", "t">>, <<"C", "a", "t">>, <<" ", "d", "o", "g", " ">>,
      <<"R", "A", "N", "K", " ", "8">>,
      <<"\"", "s", "k", "y", "\"">>,
      <<"s", "e", "a", "\n", "s", "k", "y">> }

\* a text with a keyword that has the shape of a hash
HashLikeText == UpperHash \o <<",", " ", "c", "a", "t">>

\* the texts a successful extraction hands to process_keywords: not empty
RoundTripTexts ==
    ({JoinComma(ps) : ps \in SeqsUpTo(RoundTripPieces, MaxParts)} \ {<<>>})
    \cup {HashLikeText}

\* the image of the round trip
RoundTripImage == <<"/", "w", "/", "a", ".", "j", "p", "g">>

\* csv_writer.writerow([full_path] + process_keywords(extracted, sha)), the
\* output redirected to a .txt file
WriteCsvRow ==
    /\ kw_pc = "call"
    /\ cleaned' = process_keywords(raw_text, sha256_hex)
    /\ csv_text' = CsvWriteRow(<<RoundTripImage>> \o cleaned')
    /\ kw_pc' = "done"
    /\ UNCHANGED <<raw_text, sha256_hex>>
    /\ UNCHANGED <<csv_rows, row, out, csv_pc>>
    /\ UNCHANGED <<exVars, viewVars>>

\* parse_csv_file opens the file: csv.reader over its text
OpenCsvFile ==
    /\ kw_pc = "done"
    /\ csv_pc = "idle"
    /\ csv_rows' = CsvReadRows(csv_text)
    /\ csv_pc' = "reading"
    /\ UNCHANGED <<row, out, csv_text>>
    /\ UNCHANGED <<kwVars, exVars, viewVars>>

----------------------------------------------------------------------------
(* ImageData.matches_keywords, matches_rank and ImageViewer._apply_filters *)

\* matches_keywords asking for every filter term, not for any
matches_keywords_All(img, filter_keywords, partial) ==
    IF filter_keywords = <<>> THEN TRUE
    ELSE IF partial
    THEN \A k \in Range(filter_keywords) : \E kw \in Range(img.keywords) :
            Contains(Lower(k), Lower(kw))
    ELSE LET lower_set == {Lower(kw) : kw \in Range(img.keywords)}
         IN \A k \in Range(filter_keywords) : Lower(k) \in lower_set

\* matches_keywords comparing the terms and keywords as they are spelled
matches_keywords_CaseSensitive(img, filter_keywords, partial) ==
    IF filter_keywords = <<>> THEN TRUE
    ELSE IF partial
    THEN \E k \in Range(filter_keywords) : \E kw \in Range(img.keywords) :
            Contains(k, kw)
    ELSE \E k \in Range(filter_keywords) : k \in Range(img.keywords)

matches_keywords(img, filter_keywords, partial) ==
    IF filter_keywords = <<>> THEN TRUE
    ELSE IF partial
    THEN \E k \in Range(filter_keywords) : \E kw \in Range(img.keywords) :
            Contains(Lower(k), Lower(kw))
    ELSE LET lower_set == {Lower(kw) : kw \in Range(img.keywords)}
         IN \E k \in Range(filter_keywords) : Lower(k) \in lower_set

\* matches_rank with the comparison turned round
matches_rank_AtMost(img, min_rank) == img.rank <= min_rank

matches_rank(img, min_rank) == img.rank >= min_rank

\* the filter terms of the entry's text
FilterKeywords(entry_text) ==
    LET kw_text == Strip(entry_text)
    IN IF kw_text = <<>> THEN <<>> ELSE KeywordParts(kw_text)

\* the loop with the hash of every record noted as seen, passing or not
RECURSIVE FilterFrom_SeenAll(_, _, _, _, _, _)
FilterFrom_SeenAll(images, i, filter_kws, min_rank, partial, acc) ==
    IF i > Len(images) THEN acc
    ELSE LET img == images[i]
             passes == /\ matches_keywords(img, filter_kws, partial)
                       /\ matches_rank(img, min_rank)
             noted == [acc EXCEPT !.seen = acc.seen \cup {img.hash_code}]
         IN IF img.hash_code \in acc.seen
            THEN FilterFrom_SeenAll(images, i + 1, filter_kws, min_rank, partial,
                   IF passes
                   THEN [acc EXCEPT !.duplicates = acc.duplicates + 1]
                   ELSE acc)
            ELSE FilterFrom_SeenAll(images, i + 1, filter_kws, min_rank, partial,
                   IF passes
                   THEN [noted EXCEPT !.filtered = Append(acc.filtered, i)]
                   ELSE noted)

\* the loop of _apply_filters from record i on; a filtered list holds the
\* records by their position in all_images (the list holds references)
RECURSIVE FilterFrom(_, _, _, _, _, _)
FilterFrom(images, i, filter_kws, min_rank, partial, acc) ==
    IF i > Len(images) THEN acc
    ELSE LET img == images[i]
         IN IF matches_keywords(img, filter_kws, partial)
               /\ matches_rank(img, min_rank)
            THEN IF img.hash_code \in acc.seen
                 THEN FilterFrom(images, i + 1, filter_kws, min_rank, partial,
                        [acc EXCEPT !.duplicates = acc.duplicates + 1])
                 ELSE FilterFrom(images, i + 1, filter_kws, min_rank, partial,
                        [acc EXCEPT !.seen = acc.seen \cup {img.hash_code},
                                    !.filtered = Append(acc.filtered, i)])
            ELSE FilterFrom(images, i + 1, filter_kws, min_rank, partial, acc)

\* filtered and duplicates as _apply_filters leaves them
Filtered(images, entry_text, min_rank, partial) ==
    FilterFrom(images, 1, FilterKeywords(entry_text), min_rank, partial,
               [filtered |-> <<>>, seen |-> {}, duplicates |-> 0])

\* _apply_filters under a filter state: the new list, counter and index
ApplyFilters(entry_text, min_rank, partial) ==
    LET res == Filtered(all_images, entry_text, min_rank, partial)
    IN /\ filtered_images' = res.filtered
       /\ duplicates_count' = res.duplicates
       /\ current_index' = 0

----------------------------------------------------------------------------
(* The viewer: construction and the callbacks of its widgets and keys *)

\* the rows the viewer's records are read from
ViewerRows ==
    { << <<"a", ".", "j", "p", "g">>, <<"c", "a", "t">>, <<"D", "o", "g">>, <<"R", "A", "N", "K", " ", "7">>, DeadBeefHash >>,
      << <<"b", ".", "j", "p", "g">>, <<"c", "a", "t">>, <<"R", "A", "N", "K", " ", "1">>, UpperHash >>,
      << <<"c", ".", "j", "p", "g">>, <<"d", "o", "g">>, <<"s", "k", "y">>, <<"R", "A", "N", "K", " ", "1", "0">>, DigitsHash >>,
      << <<"d", ".", "j", "p", "g">>, <<"C", "a", "t", "a", "l", "o", "g">>, DigitsHash >> }

ViewerRecords == {ParseRow(r) : r \in ViewerRows}

RecordLists == {l \in SeqsUpTo(ViewerRecords, MaxImages) : l # <<>>}

\* the texts typed into the keyword entry
EntryTexts ==
    { <<>>, <<"c", "a", "t">>, <<"c", "a", "t", ",", " ", "D", "O", "G">>,
      <<"a", "t">>, <<" ", ",", " ">> }

\* the positions of the minimum-rank scale the model moves it to
RankFrom == 1
RankTo == 10
ScaleRanks == {RankFrom, 6, RankTo}

\* the zoom scale, its initial value and one notch of the mouse wheel
ZoomFrom == 10
ZoomTo == 300
ZoomInitial == 100
WheelStep == 5

\* zoom_percent, fit_mode and fullscreen as __init__ sets them; nothing
\* copied or opened yet
DisplayInitial ==
    /\ zoom_percent = ZoomInitial
    /\ fit_mode = "fit"
    /\ fullscreen = FALSE
    /\ clipboard = <<>>
    /\ opened = <<>>

ViewIdle ==
    /\ DisplayInitial
    /\ all_images = <<>>
    /\ keyword_entry = <<>>
    /\ rank_var = RankFrom
    /\ partial_match = FALSE
    /\ filtered_images = <<>>
    /\ duplicates_count = 0
    /\ current_index = 0

\* ImageViewer(root, all_data): the state __init__ leaves
ViewerConstructed ==
    /\ DisplayInitial
    /\ all_images \in RecordLists
    /\ keyword_entry = <<>>
    /\ rank_var = RankFrom
    /\ partial_match = FALSE
    /\ LET res == Filtered(all_images, <<>>, RankFrom, FALSE)
       IN /\ filtered_images = res.filtered
          /\ duplicates_count = res.duplicates
    /\ current_index = 0

\* <KeyRelease> with the full list narrowed to the records that pass
KeyRelease_Narrowing ==
    /\ \E text \in EntryTexts :
          /\ text # keyword_entry
          /\ keyword_entry' = text
          /\ LET res == Filtered(all_images, text, rank_var, partial_match)
             IN /\ all_images' = [k \in 1..Len(res.filtered) |->
                                     all_images[res.filtered[k]]]
                /\ filtered_images' = [k \in 1..Len(res.filtered) |-> k]
                /\ duplicates_count' = res.duplicates
                /\ current_index' = 0
    /\ UNCHANGED <<rank_var, partial_match>>
    /\ UNCHANGED displayVars
    /\ UNCHANGED <<kwVars, csvVars, exVars>>

\* <KeyRelease> in the keyword entry
KeyRelease ==
    /\ \E text \in EntryTexts :
          /\ text # keyword_entry
          /\ keyword_entry' = text
          /\ ApplyFilters(text, rank_var, partial_match)
    /\ UNCHANGED <<all_images, rank_var, partial_match>>
    /\ UNCHANGED displayVars
    /\ UNCHANGED <<kwVars, csvVars, exVars>>

\* the minimum-rank scale is moved
ScaleMove ==
    /\ \E r \in ScaleRanks :
          /\ r # rank_var
          /\ rank_var' = r
          /\ ApplyFilters(keyword_entry, r, partial_match)
    /\ UNCHANGED <<all_images, keyword_entry, partial_match>>
    /\ UNCHANGED displayVars
    /\ UNCHANGED <<kwVars, csvVars, exVars>>

\* the partial-match check button is toggled
TogglePartial ==
    /\ partial_match' = ~partial_match
    /\ ApplyFilters(keyword_entry, rank_var, ~partial_match)
    /\ UNCHANGED <<all_images, keyword_entry, rank_var>>
    /\ UNCHANGED displayVars
    /\ UNCHANGED <<kwVars, csvVars, exVars>>

ClearFilters ==
    /\ keyword_entry' = <<>>
    /\ rank_var' = 1
    /\ partial_match' = FALSE
    /\ ApplyFilters(<<>>, 1, FALSE)
    /\ UNCHANGED all_images
    /\ UNCHANGED displayVars
    /\ UNCHANGED <<kwVars, csvVars, exVars>>

PrevImage ==
    /\ current_index' = IF current_index > 0
                        THEN current_index - 1 ELSE current_index
    /\ UNCHANGED <<all_images, keyword_entry, rank_var, partial_match,
                   filtered_images, duplicates_count>>
    /\ UNCHANGED displayVars
    /\ UNCHANGED <<kwVars, csvVars, exVars>>

\* _next_image stopping one step late
NextImage_PastEnd ==
    /\ current_index' = IF current_index < Len(filtered_images)
                        THEN current_index + 1 ELSE current_index
    /\ UNCHANGED <<all_images, keyword_entry, rank_var, partial_match,
                   filtered_images, duplicates_count>>
    /\ UNCHANGED displayVars
    /\ UNCHANGED <<kwVars, csvVars, exVars>>

NextImage ==
    /\ current_index' = IF current_index < Len(filtered_images) - 1
                        THEN current_index + 1 ELSE current_index
    /\ UNCHANGED <<all_images, keyword_entry, rank_var, partial_match,
                   filtered_images, duplicates_count>>
    /\ UNCHANGED displayVars
    /\ UNCHANGED <<kwVars, csvVars, exVars>>

\* _goto_index(i)
GotoIndex ==
    /\ \E i \in -1..MaxImages :
          current_index' = IF 0 <= i /\ i < Len(filtered_images)
                           THEN i ELSE current_index
    /\ UNCHANGED <<all_images, keyword_entry, rank_var, partial_match,
                   filtered_images, duplicates_count>>
    /\ UNCHANGED displayVars
    /\ UNCHANGED <<kwVars, csvVars, exVars>>

----------------------------------------------------------------------------
(* The viewer's display callbacks, Copy keywords and Open externally *)

selectionVars == <<all_images, keyword_entry, rank_var, partial_match,
                   filtered_images, duplicates_count, current_index>>

\* the positions the zoom scale is dragged to
ZoomPositions == {ZoomFrom, ZoomInitial, ZoomTo}

\* a Fit / Actual radio button is pressed: Tk sets fit_mode, the callback
\* redraws
FitModeChange ==
    /\ \E mode \in {"fit", "actual"} : fit_mode' = mode
    /\ UNCHANGED <<zoom_percent, fullscreen, clipboard, opened>>
    /\ UNCHANGED selectionVars
    /\ UNCHANGED <<kwVars, csvVars, exVars>>

\* the zoom scale is dragged: Tk sets zoom_percent, _on_zoom_change redraws
ZoomScaleMove ==
    /\ \E z \in ZoomPositions : zoom_percent' = z
    /\ UNCHANGED <<fit_mode, fullscreen, clipboard, opened>>
    /\ UNCHANGED selectionVars
    /\ UNCHANGED <<kwVars, csvVars, exVars>>

Max(a, b) == IF a >= b THEN a ELSE b
Min(a, b) == IF a <= b THEN a ELSE b

\* _wheel_zoom: one notch up or down, kept within the scale; the model
\* follows one notch from each position of the scale
WheelZoom ==
    /\ zoom_percent \in ZoomPositions
    /\ \E step \in {WheelStep, -WheelStep} :
          zoom_percent' = Max(ZoomFrom, Min(ZoomTo, zoom_percent + step))
    /\ UNCHANGED <<fit_mode, fullscreen, clipboard, opened>>
    /\ UNCHANGED selectionVars
    /\ UNCHANGED <<kwVars, csvVars, exVars>>

\* _toggle_fullscreen
ToggleFullscreen ==
    /\ fullscreen' = ~fullscreen
    /\ UNCHANGED <<zoom_percent, fit_mode, clipboard, opened>>
    /\ UNCHANGED selectionVars
    /\ UNCHANGED <<kwVars, csvVars, exVars>>

\* _exit_fullscreen
ExitFullscreen ==
    /\ fullscreen' = FALSE
    /\ UNCHANGED <<zoom_percent, fit_mode, clipboard, opened>>
    /\ UNCHANGED selectionVars
    /\ UNCHANGED <<kwVars, csvVars, exVars>>

\* ", ".join(keywords)
RECURSIVE JoinKeywords(_)
JoinKeywords(keywords) ==
    IF keywords = <<>> THEN <<>>
    ELSE IF Len(keywords) = 1 THEN keywords[1]
    ELSE keywords[1] \o <<",", " ">> \o JoinKeywords(Tail(keywords))

\* the text of the keywords box, as _set_info_panel filled it for the record
\* on display
KeywordsText ==
    IF filtered_images = <<>> THEN <<>>
    ELSE JoinKeywords(all_images[filtered_images[current_index + 1]].keywords)

\* _copy_keywords
CopyKeywords ==
    /\ clipboard' = IF filtered_images = <<>> \/ Strip(KeywordsText) = <<>>
                    THEN clipboard ELSE Strip(KeywordsText)
    /\ UNCHANGED <<zoom_percent, fit_mode, fullscreen, opened>>
    /\ UNCHANGED selectionVars
    /\ UNCHANGED <<kwVars, csvVars, exVars>>

\* _resolve_image_path: full_path when set and on disk, else the file name
\* when that is on disk, else None (<<>>)
resolve_image_path(img_data) ==
    IF img_data.full_path # <<>> /\ PathExists(img_data.full_path)
    THEN img_data.full_path
    ELSE IF PathExists(img_data.filename) THEN img_data.filename
    ELSE <<>>

\* _open_externally: the file on display is handed to the desktop's opener,
\* when the file is found and the opener is installed
OpenExternally ==
    /\ IF filtered_images = <<>> THEN UNCHANGED opened
       ELSE LET p == resolve_image_path(
                         all_images[filtered_images[current_index + 1]])
            IN IF p = <<>> THEN UNCHANGED opened
               ELSE \E installed \in BOOLEAN :
                       opened' = IF installed THEN p ELSE opened
    /\ UNCHANGED <<zoom_percent, fit_mode, fullscreen, clipboard>>
    /\ UNCHANGED selectionVars
    /\ UNCHANGED <<kwVars, csvVars, exVars>>

\* the records of ViewerRows in the order of their file names, as many as
\* MaxImages allows
DisplayList ==
    LET names == SortedStrings({r.filename : r \in ViewerRecords})
    IN [i \in 1..Min(MaxImages, Len(names)) |->
           CHOOSE r \in ViewerRecords : r.filename = names[i]]

----------------------------------------------------------------------------
(* main: the split of the arguments and the viewer branch *)

\* the arguments of a run of either mode
MainArgs ==
    { <<"a", ".", "j", "p", "g">>, <<"l", "i", "s", "t", ".", "t", "x", "t">>, <<"e", "m", "p", "t", "y", ".", "t", "x", "t">>, <<"d", "/", "n", "o", "t", "e", "s", ".", "t", "x", "t">>, <<"*", ".", "t", "x", "t">>, <<"m", "i", "s", "s", "i", "n", "g", ".", "t", "x", "t">> }

MainArgLists == {a \in SeqsUpTo(MainArgs, MaxArgs) : a # <<>>}

\* the rows csv.reader yields for the .txt files on disk
FileRows(p) ==
    IF Resolve(p) = <<"/", "w", "/", "l", "i", "s", "t", ".", "t", "x", "t">>
    THEN <<ExampleRow, << <<"a", ".", "j", "p", "g">>, <<"c", "a", "t">> >> >>
    ELSE IF Resolve(p) = <<"/", "w", "/", "d", "/", "n", "o", "t", "e", "s", ".", "t", "x", "t">>
    THEN << << <<"a", ".", "j", "p", "g">>, <<"d", "o", "g">> >>, BadRow >>
    ELSE <<>>

\* str.endswith
EndsWith(str, tail) ==
    Len(tail) <= Len(str) /\ SubSeq(str, Len(str) - Len(tail) + 1, Len(str)) = tail

TxtSuffix == <<".", "t", "x", "t">>

\* the orders in which the directory can list the members of S
Orders(S) == {o \in [1..Cardinality(S) -> S] : Range(o) = S}

\* the loop over args.paths from argument i on; listing is the order in
\* which Path().glob yields the .txt entries of the working directory
RECURSIVE SplitPathsFrom(_, _, _, _)
SplitPathsFrom(args, i, listing, acc) ==
    IF i > Len(args) THEN acc
    ELSE LET arg == args[i]
         IN IF EndsWith(arg, <<"*">> \o TxtSuffix)
            THEN SplitPathsFrom(args, i + 1, listing,
                   [acc EXCEPT !.txt = acc.txt \o
                       SelectSeq(listing, LAMBDA n : n \in GlobCwd(arg))])
            ELSE IF Lower(PathSuffix(arg)) = TxtSuffix /\ PathExists(arg)
            THEN SplitPathsFrom(args, i + 1, listing,
                   [acc EXCEPT !.txt = Append(acc.txt, arg)])
            ELSE SplitPathsFrom(args, i + 1, listing,
                   [acc EXCEPT !.other = Append(acc.other, arg)])

\* main up to its if: txt_files and other; the viewer branch is taken when
\* there are .txt files and nothing else
SplitPaths ==
    /\ ex_pc = "args"
    /\ \E listing \in Orders(GlobCwd(<<"*">> \o TxtSuffix)) :
          LET r == SplitPathsFrom(paths, 1, listing,
                                  [txt |-> <<>>, other |-> <<>>])
          IN /\ txt_files' = r.txt
             /\ other' = r.other
             /\ ex_pc' = IF r.txt # <<>> /\ r.other = <<>>
                          THEN "csv" ELSE "main"
    /\ UNCHANGED <<paths, imgs, img_i, image_b64, resp, stdout_rows,
                   stderr_lines, started, finished, all_data, PIL_AVAILABLE>>
    /\ UNCHANGED <<kwVars, csvVars, viewVars>>

ProcessingLine(tf) ==
    <<"P", "r", "o", "c", "e", "s", "s", "i", "n", "g", " ", "C", "S", "V",
      " ", "f", "i", "l", "e", ":", " ">> \o Resolve(tf)

\* the loop over txt_files from file i on: the records gathered and the
\* lines printed to stderr
RECURSIVE LoadFrom(_, _, _)
LoadFrom(files, i, acc) ==
    IF i > Len(files) THEN acc
    ELSE LET rows == FileRows(files[i])
             failed == \E k \in 1..Len(rows) : rows[k] = BadRow
         IN LoadFrom(files, i + 1,
              [data |-> acc.data \o parse_csv_file(rows),
               lines |-> acc.lines \o <<ProcessingLine(files[i])>>
                           \o (IF failed THEN <<ParseErrorLine>> ELSE <<>>)])

\* for tf in txt_files: all_data.extend(parse_csv_file(tf))
LoadCsvFiles ==
    /\ ex_pc = "csv"
    /\ LET r == LoadFrom(txt_files, 1, [data |-> <<>>, lines |-> <<>>])
       IN /\ all_data' = r.data
          /\ stderr_lines' = stderr_lines \o r.lines
    /\ ex_pc' = "data"
    /\ UNCHANGED <<paths, imgs, img_i, image_b64, resp, stdout_rows, started,
                   finished, txt_files, other, PIL_AVAILABLE>>
    /\ UNCHANGED <<kwVars, csvVars, viewVars>>

NoDataLine ==
    <<"N", "o", " ", "i", "m", "a", "g", "e", " ", "d", "a", "t", "a", " ",
      "f", "o", "u", "n", "d">>
PillowRequiredLine ==
    <<"P", "i", "l", "l", "o", "w", " ", "i", "s", " ", "r", "e", "q", "u",
      "i", "r", "e", "d">>
LoadedLine(n) ==
    <<"L", "o", "a", "d", "e", "d", " ">> \o IntToStr(n)
    \o <<" ", "i", "m", "a", "g", "e", "s">>
\* the traceback of an exception nothing catches
TracebackLine == <<"T", "r", "a", "c", "e", "b", "a", "c", "k">>

\* if not all_data: sys.exit(1)
CheckData ==
    /\ ex_pc = "data"
    /\ IF all_data = <<>>
       THEN /\ stderr_lines' = Append(stderr_lines, NoDataLine)
            /\ ex_pc' = "exit1"
       ELSE /\ UNCHANGED stderr_lines
            /\ ex_pc' = "pillow"
    /\ UNCHANGED <<paths, imgs, img_i, image_b64, resp, stdout_rows, started,
                   finished, mainVars>>
    /\ UNCHANGED <<kwVars, csvVars, viewVars>>

\* the Pillow check passed over
CheckPillow_Skipped ==
    /\ ex_pc = "pillow"
    /\ ex_pc' = "gui"
    /\ UNCHANGED <<paths, imgs, img_i, image_b64, resp, stdout_rows,
                   stderr_lines, started, finished, mainVars>>
    /\ UNCHANGED <<kwVars, csvVars, viewVars>>

\* if not PIL_AVAILABLE: sys.exit(1)
CheckPillow ==
    /\ ex_pc = "pillow"
    /\ IF ~PIL_AVAILABLE
       THEN /\ stderr_lines' = Append(stderr_lines, PillowRequiredLine)
            /\ ex_pc' = "exit1"
       ELSE /\ UNCHANGED stderr_lines
            /\ ex_pc' = "gui"
    /\ UNCHANGED <<paths, imgs, img_i, image_b64, resp, stdout_rows, started,
                   finished, mainVars>>
    /\ UNCHANGED <<kwVars, csvVars, viewVars>>

\* root = tk.Tk(); ImageViewer(root, all_data): the window is created and
\* the viewer constructed, or tk.Tk() raises TclError (no display), which
\* nothing catches
LaunchGui ==
    /\ ex_pc = "gui"
    /\ \E display \in BOOLEAN :
          IF display
          THEN /\ stderr_lines' =
                     Append(stderr_lines, LoadedLine(Len(all_data)))
               /\ all_images' = all_data
               /\ LET res == Filtered(all_data, <<>>, RankFrom, FALSE)
                  IN /\ filtered_images' = res.filtered
                     /\ duplicates_count' = res.duplicates
               /\ ex_pc' = "mainloop"
          ELSE /\ stderr_lines' =
                     stderr_lines \o <<LoadedLine(Len(all_data)), TracebackLine>>
               /\ UNCHANGED <<all_images, filtered_images, duplicates_count>>
               /\ ex_pc' = "exit1"
    /\ UNCHANGED <<keyword_entry, rank_var, partial_match, current_index,
                   displayVars>>
    /\ UNCHANGED <<paths, imgs, img_i, image_b64, resp, stdout_rows, started,
                   finished, mainVars>>
    /\ UNCHANGED <<kwVars, csvVars>>

\* the window is closed: root.mainloop() returns and main ends
CloseWindow ==
    /\ ex_pc = "mainloop"
    /\ ex_pc' = "exit0"
    /\ UNCHANGED <<paths, imgs, img_i, image_b64, resp, stdout_rows,
                   stderr_lines, started, finished, mainVars>>
    /\ UNCHANGED <<kwVars, csvVars, viewVars>>

----------------------------------------------------------------------------
(* The specifications *)

\* process_keywords applied to every raw text and hash
InitKeywords ==
    /\ raw_text \in RawTexts
    /\ sha256_hex \in HashStrings
    /\ cleaned = <<>>
    /\ kw_pc = "call"
    /\ CsvIdle /\ ExIdle /\ ViewIdle

NextKeywords == CallProcessKeywords

SpecKeywords == InitKeywords /\ [][NextKeywords]_vars

\* parse_csv_file reading a file
InitCsv ==
    /\ csv_text = <<>>
    /\ csv_rows \in CsvFiles
    /\ row = <<>>
    /\ out = <<>>
    /\ csv_pc = "reading"
    /\ KwIdle /\ ExIdle /\ ViewIdle

NextCsv == ReadRow \/ ReadFails \/ ReturnOut

SpecCsv == InitCsv /\ [][NextCsv]_vars

\* an extraction run: main with image arguments
Init ==
    /\ paths \in ArgLists
    /\ txt_files = <<>> /\ other = paths /\ all_data = <<>>
    /\ PIL_AVAILABLE = TRUE
    /\ imgs = <<>>
    /\ img_i = 0
    /\ ex_pc = "main"
    /\ image_b64 = <<>>
    /\ resp = NoOutcome
    /\ stdout_rows = <<>>
    /\ stderr_lines = <<>>
    /\ started = <<>>
    /\ finished = <<>>
    /\ KwIdle /\ CsvIdle /\ ViewIdle

Next == Main \/ NextFile \/ LoopEnd \/ ReadImage \/ DoRequest \/ WriteRow

Spec == Init /\ [][Next]_vars

\* the same run, given that the interpreter keeps executing main and every
\* request returns, fails or times out
FairSpec == Spec /\ WF_vars(Next)

\* run_for_file from the parsed response on, for every shape of response
InitExtract ==
    /\ ResponseParsed
    /\ KwIdle /\ CsvIdle /\ ViewIdle

NextExtract == WriteRow \/ LoopEnd

SpecExtract == InitExtract /\ [][NextExtract]_vars

\* a run of main in either mode, with and without Pillow
InitMain ==
    /\ paths \in MainArgLists
    /\ PIL_AVAILABLE \in BOOLEAN
    /\ txt_files = <<>> /\ other = <<>> /\ all_data = <<>>
    /\ imgs = <<>>
    /\ img_i = 0
    /\ ex_pc = "args"
    /\ image_b64 = <<>>
    /\ resp = NoOutcome
    /\ stdout_rows = <<>>
    /\ stderr_lines = <<>>
    /\ started = <<>>
    /\ finished = <<>>
    /\ KwIdle /\ CsvIdle /\ ViewIdle

NextMain ==
    \/ SplitPaths \/ LoadCsvFiles \/ CheckData \/ CheckPillow \/ LaunchGui
    \/ CloseWindow
    \/ Main \/ NextFile \/ LoopEnd \/ ReadImage \/ DoRequest \/ WriteRow

SpecMain == InitMain /\ [][NextMain]_vars

\* a row written by a successful extraction and read back by the viewer's
\* parser
InitRoundTrip ==
    /\ raw_text \in RoundTripTexts
    /\ sha256_hex \in {file_sha256_hex(RoundTripImage), DeadBeefHash}
    /\ cleaned = <<>>
    /\ kw_pc = "call"
    /\ CsvIdle /\ ExIdle /\ ViewIdle

NextRoundTrip == WriteCsvRow \/ OpenCsvFile \/ ReadRow \/ ReturnOut

SpecRoundTrip == InitRoundTrip /\ [][NextRoundTrip]_vars

\* the viewer, from its construction on
InitViewer ==
    /\ ViewerConstructed
    /\ KwIdle /\ CsvIdle /\ ExIdle

NextViewer ==
    \/ KeyRelease \/ ScaleMove \/ TogglePartial \/ ClearFilters
    \/ PrevImage \/ NextImage \/ GotoIndex

SpecViewer == InitViewer /\ [][NextViewer]_vars

\* the viewer on one list of records, with every callback
InitDisplay ==
    /\ ViewerConstructed
    /\ all_images = DisplayList
    /\ KwIdle /\ CsvIdle /\ ExIdle

NextDisplay ==
    \/ KeyRelease \/ ScaleMove \/ TogglePartial \/ ClearFilters
    \/ PrevImage \/ NextImage \/ GotoIndex
    \/ FitModeChange \/ ZoomScaleMove \/ WheelZoom
    \/ ToggleFullscreen \/ ExitFullscreen
    \/ CopyKeywords \/ OpenExternally

SpecDisplay == InitDisplay /\ [][NextDisplay]_vars

----------------------------------------------------------------------------
(* Claims about process_keywords and the extraction run *)

\* the keywords of a result of process_keywords: all but its last element
KeywordsOf(result) == SubSeq(result, 1, Len(result) - 1)

\* the first of parts whose lower-cased form is low
FirstSpelling(parts, low) ==
    parts[CHOOSE i \in 1..Len(parts) :
            /\ Lower(parts[i]) = low
            /\ \A j \in 1..(i - 1) : Lower(parts[j]) # low]

StrictlySortedByLower(kws) ==
    \A i, j \in 1..Len(kws) : i < j => StrLess(Lower(kws[i]), Lower(kws[j]))

\* C1: for every raw text and hash string, the result of process_keywords
\* holds each case-insensitively distinct trimmed non-empty keyword once, in
\* the spelling of its first occurrence, ordered by lower-cased form, and
\* then the hash as the last element, so its length is the number of
\* distinct keywords plus one.
C1_ProcessKeywords ==
    kw_pc = "done" =>
        LET parts == KeywordParts(raw_text)
            lows == {Lower(p) : p \in Range(parts)}
            kws == KeywordsOf(cleaned)
        IN /\ cleaned # <<>>
           /\ cleaned[Len(cleaned)] = sha256_hex
           /\ Len(cleaned) = Cardinality(lows) + 1
           /\ {Lower(k) : k \in Range(kws)} = lows
           /\ \A i \in 1..Len(kws) : kws[i] = FirstSpelling(parts, Lower(kws[i]))
           /\ StrictlySortedByLower(kws)

\* a text whose parts repeat a keyword in another spelling, with the hash
\* equal to one of the keywords
C1_Witness ==
    /\ kw_pc = "done"
    /\ Len(KeywordParts(raw_text)) > Len(cleaned) - 1
    /\ Len(cleaned) >= 3
    /\ \E k \in Range(KeywordsOf(cleaned)) : k # Lower(k)
    /\ sha256_hex \in Range(KeywordsOf(cleaned))

\* the row of the file main is at was written for the response in resp
RowWritten ==
    /\ ex_pc = "loop"
    /\ resp.kind = "ok"
    /\ stdout_rows # <<>>

LastRow == stdout_rows[Len(stdout_rows)]

\* the response text has a RANK n token among its keywords
ResponseHasRank ==
    LET e == extract_text_from_response(resp.body)
    IN /\ e.kind = "text"
       /\ \E k \in Range(KeywordParts(e.text)) : HasRankToken(k)

\* C2 (as claimed): every resolved image yields exactly one row, whatever the
\* outcome: the rows written are those of the files finished so far, one
\* each, and after the batch there are as many rows as resolved images.
C2_OneRowPerImage ==
    /\ Len(stdout_rows) = Len(finished)
    /\ \A i \in 1..Len(stdout_rows) : stdout_rows[i][1] = finished[i]
    /\ ex_pc = "exit0" => Len(stdout_rows) = Len(imgs)

\* the list is sorted and free of duplicates, the files started and the files
\* finished are an initial part of it, and at most one file is in progress
C3_InOrder ==
    /\ \A i, j \in 1..Len(imgs) : i < j => StrLess(imgs[i], imgs[j])
    /\ Len(started) <= Len(imgs)
    /\ started = SubSeq(imgs, 1, Len(started))
    /\ finished = SubSeq(imgs, 1, Len(finished))
    /\ Len(finished) <= Len(started)
    /\ Len(started) <= Len(finished) + 1

\* C3: the files are processed one after another in the order of the sorted,
\* de-duplicated list; a file is started only when the one before it has
\* finished; and whatever fails on a file, as long as each request returns
\* or times out every file of the list is eventually processed.
C3_Sequential ==
    /\ []C3_InOrder
    /\ <>(ex_pc \in {"exit0", "exit1"} /\ finished = imgs)

\* a batch of several files that ran to its end although a read and a
\* request failed on the way
C3_Witness ==
    /\ ex_pc = "exit0"
    /\ Len(imgs) >= 3
    /\ finished = imgs
    /\ stderr_lines # <<>>
    /\ \E i \in 1..Len(stdout_rows) :
          stdout_rows[i] = ConnectionErrorRow(stdout_rows[i][1],
                             <<"C", "o", "n", "n", "e", "c", "t", "i", "o", "n", " ", "r", "e", "f", "u", "s", "e", "d">>)
    /\ \E i \in 1..Len(stdout_rows) : Len(stdout_rows[i]) > 2

\* C10 (as claimed): when the response text has a RANK n token, the row is
\* the path, the sorted keywords without the rank token, and the hash.
C10_RankRemoved ==
    (RowWritten /\ ResponseHasRank) =>
        /\ \A i \in 1..Len(LastRow) : ~HasRankToken(LastRow[i])
        /\ LastRow[1] = imgs[img_i]
        /\ LastRow[Len(LastRow)] = file_sha256_hex(imgs[img_i])

\* C10 (amended): when the response text has a RANK n token, the row is the
\* path, the de-duplicated keywords sorted by lower case with the rank token
\* kept among them at its sorted place, and the file hash appended once.
C10_RankKept ==
    (RowWritten /\ ResponseHasRank) =>
        LET text == extract_text_from_response(resp.body).text
            parts == KeywordParts(text)
            sha == file_sha256_hex(imgs[img_i])
            kws == SubSeq(LastRow, 2, Len(LastRow) - 1)
        IN /\ Len(LastRow) >= 3
           /\ LastRow[1] = imgs[img_i]
           /\ LastRow[Len(LastRow)] = sha
           /\ Cardinality({i \in 1..Len(LastRow) : LastRow[i] = sha}) = 1
           /\ {Lower(k) : k \in Range(kws)} = {Lower(p) : p \in Range(parts)}
           /\ Len(kws) = Cardinality({Lower(p) : p \in Range(parts)})
           /\ StrictlySortedByLower(kws)
           /\ \E i \in 1..Len(kws) : HasRankToken(kws[i])
           /\ text = RankText =>
                kws = << <<"b", "l", "u", "e">>, <<"p", "h", "o", "t", "o">>,
                         <<"R", "A", "N", "K", " ", "8">>, <<"s", "k", "y">> >>

\* the row written for the response blue, sky, RANK 8, photo
C10_Witness ==
    /\ RowWritten
    /\ ResponseHasRank
    /\ extract_text_from_response(resp.body).text = RankText
    /\ Len(LastRow) = 6

\* d.get(k) where d may be anything: no value when d is no dict
GetOrNull(d, k) == IF IsJDict(d) THEN DictGet(d, k) ELSE JNull

\* the first entry of a non-empty list, no value otherwise
FirstEntry(l) == IF l.t = "list" /\ l.v # <<>> THEN l.v[1] ELSE JNull

\* the shapes in their fixed order: response, message.content, the first
\* choice's message.content, the first choice's content, text, output, content
Shapes(j) ==
    << GetOrNull(j, "response"),
       GetOrNull(GetOrNull(j, "message"), "content"),
       GetOrNull(GetOrNull(FirstEntry(GetOrNull(j, "choices")), "message"),
                 "content"),
       GetOrNull(FirstEntry(GetOrNull(j, "choices")), "content"),
       GetOrNull(j, "text"), GetOrNull(j, "output"), GetOrNull(j, "content") >>

\* the text of the first shape that holds a string, None when none does
FirstShape(j) ==
    LET at == {i \in 1..Len(Shapes(j)) : IsJStr(Shapes(j)[i])}
    IN IF at = {} THEN ExtractedNone
       ELSE Extracted(Shapes(j)[CHOOSE i \in at : \A k \in at : i <= k].v)

\* C16: extract_text_from_response returns the text of the first matching
\* shape in the fixed order, returns None for any parsed JSON value in which
\* no shape holds a string (a choices list whose first entry is no dict
\* included), and never raises.
C16_FirstShape ==
    (ex_pc = "respond" /\ resp.kind = "ok") =>
        extract_text_from_response(resp.body) = FirstShape(resp.body)

----------------------------------------------------------------------------
(* Claims about parse_csv_file *)

\* the record made from the row just read
LastRecord == out[Len(out)]

HexCharacters ==
    {"0", "1", "2", "3", "4", "5", "6", "7", "8", "9",
     "a", "b", "c", "d", "e", "f", "A", "B", "C", "D", "E", "F"}

\* a field of exactly 64 hexadecimal characters
IsHex64(f) == Len(f) = HashLen /\ Range(f) \subseteq HexCharacters

\* the greatest element of a non-empty set of numbers
MaxOf(S) == CHOOSE m \in S : \A n \in S : n <= m

\* C7: when a field of the row is exactly 64 hexadecimal characters, the
\* record's hash is that token in lower case (the last one when the row has
\* several) and no such token is among the keywords; when the row has none,
\* the hash is the SHA-256 of the file name.
C7_HashToken ==
    Len(row) >= 2 =>
        LET items == RowItems(row)
            hs == {i \in 1..Len(items) : IsHex64(items[i])}
        IN /\ out # <<>>
           /\ hs # {} =>
                /\ LastRecord.hash_code = Lower(items[MaxOf(hs)])
                /\ \A k \in Range(LastRecord.keywords) : ~IsHex64(k)
                /\ \A i \in hs : items[i] \notin Range(LastRecord.keywords)
           /\ hs = {} => LastRecord.hash_code = Sha256Hex(row[1])

\* a row with an upper-case hash token beside a keyword
C7_Witness ==
    /\ Len(row) >= 3
    /\ out # <<>>
    /\ UpperHash \in Range(RowItems(row))
    /\ LastRecord.hash_code = DeadBeefHash
    /\ LastRecord.keywords # <<>>

\* C8: when the row has a RANK n token, the record's rank is n (of the last
\* one when the row has several) and the token is not among the keywords;
\* the keywords are the non-empty fields after the first that are neither a
\* RANK token nor a 64-hex token, in their order; without a RANK token the
\* rank is 1.
C8_RankToken ==
    Len(row) >= 2 =>
        LET items == RowItems(row)
            rs == {i \in 1..Len(items) : HasRankToken(items[i])}
        IN /\ out # <<>>
           /\ rs # {} => LastRecord.rank = RankOf(items[MaxOf(rs)])
           /\ rs = {} => LastRecord.rank = 1
           /\ (rs # {} /\ items[MaxOf(rs)] = <<"R", "A", "N", "K", " ", "7">>)
                => LastRecord.rank = 7
           /\ (rs # {} /\ items[MaxOf(rs)] = <<"r", "a", "n", "k", " ", " ", "3">>)
                => LastRecord.rank = 3
           /\ \A k \in Range(LastRecord.keywords) : ~HasRankToken(k)
           /\ LastRecord.keywords =
                SelectSeq(items, LAMBDA c : ~HasRankToken(c) /\ ~IsHex64(c))

\* a row with a lower-case rank token between two keywords
C8_Witness ==
    /\ Len(row) = 4
    /\ out # <<>>
    /\ Strip(row[3]) = <<"r", "a", "n", "k", " ", " ", "3">>
    /\ LastRecord.rank = 3
    /\ Len(LastRecord.keywords) = 2

\* C9 (as claimed): the keywords of a parsed row hold no two entries equal up
\* to case, and photo1.jpg,cat,Cat,RANK 7,dog,<hash> yields [cat, dog], rank
\* 7 and that hash.
C9_Deduplicated ==
    Len(row) >= 2 =>
        LET kws == LastRecord.keywords
        IN /\ \A i, j \in 1..Len(kws) :
                 i < j => Lower(kws[i]) # Lower(kws[j])
           /\ row = ExampleRow =>
                /\ kws = << <<"c", "a", "t">>, <<"d", "o", "g">> >>
                /\ LastRecord.rank = 7
                /\ LastRecord.hash_code = DeadBeefHash

\* C9 (amended): parsing keeps every keyword field, repeated ones as well:
\* there are as many keywords as fields that are neither a RANK token nor a
\* hash, and photo1.jpg,cat,Cat,RANK 7,dog,<hash> yields [cat, Cat, dog],
\* rank 7 and that hash.
C9_DuplicatesKept ==
    Len(row) >= 2 =>
        LET kws == LastRecord.keywords
            items == RowItems(row)
        IN /\ Len(kws) = Cardinality({i \in 1..Len(items) :
                             ~HasRankToken(items[i]) /\ ~IsHex64(items[i])})
           /\ row = ExampleRow =>
                /\ kws = << <<"c", "a", "t">>, <<"C", "a", "t">>,
                            <<"d", "o", "g">> >>
                /\ LastRecord.rank = 7
                /\ LastRecord.hash_code = DeadBeefHash

\* the example row has been parsed
C9_Witness ==
    /\ row = ExampleRow
    /\ out # <<>>
    /\ Len(LastRecord.keywords) = 3

\* 64 lower-case hexadecimal characters
IsLowerHex64(f) == IsHex64(f) /\ \A i \in 1..Len(f) : ~IsUpper(f[i])

\* C17: every record parse_csv_file produces has an integer rank in the range
\* 1 to 10 and a hash of exactly 64 lower-case hexadecimal characters.
C17_RankAndHash ==
    \A i \in 1..Len(out) :
        /\ out[i].rank \in RankFrom..RankTo
        /\ IsLowerHex64(out[i].hash_code)

\* parse_csv_file has returned after its except clause logged a failure
ParseFailed == csv_pc = "returned" /\ stderr_lines # <<>>

\* C11: when parse_csv_file hits a failure part-way through a file, the
\* records read before the failure are discarded: it returns no records.
C11_PartialDiscarded == ParseFailed => out = <<>>

----------------------------------------------------------------------------
(* Claims about the viewer's filter *)

\* record i passes the keyword and rank filter of the current filter state
Passes(i) ==
    /\ matches_keywords(all_images[i], FilterKeywords(keyword_entry),
                        partial_match)
    /\ matches_rank(all_images[i], rank_var)

Passing == {i \in 1..Len(all_images) : Passes(i)}

SameHash(i, j) == all_images[i].hash_code = all_images[j].hash_code

Survivors == Range(filtered_images)

\* what C4 says of the filtered list itself and of the counter
C4_ListAndCounter ==
    /\ \A a, b \in 1..Len(filtered_images) :
          a < b => /\ filtered_images[a] < filtered_images[b]
                   /\ ~SameHash(filtered_images[a], filtered_images[b])
    /\ Len(filtered_images) + duplicates_count = Cardinality(Passing)

\* C4 (as claimed): of any two records of the full set that share a hash only
\* the first survives; the surviving hashes are distinct and in original
\* order; the counter is the number removed.
C4_FirstOfAll ==
    /\ \A i, j \in 1..Len(all_images) :
          (i < j /\ SameHash(i, j)) => j \notin Survivors
    /\ C4_ListAndCounter

\* C4 (amended): of any two records that pass the keyword and rank filter
\* and share a hash only the first survives, and the first passing record of
\* each hash does survive; the surviving hashes are distinct and in original
\* order; the counter is the number of passing records removed.
C4_FirstOfPassing ==
    /\ Survivors \subseteq Passing
    /\ \A i, j \in Passing : (i < j /\ SameHash(i, j)) => j \notin Survivors
    /\ \A j \in Passing :
          (\A i \in Passing : i < j => ~SameHash(i, j)) => j \in Survivors
    /\ duplicates_count =
          Cardinality({j \in Passing :
                         \E i \in Passing : i < j /\ SameHash(i, j)})
    /\ C4_ListAndCounter

\* a filter state under which a record is removed as a duplicate while an
\* earlier record of the same hash does not pass
C4_Witness ==
    /\ rank_var > RankFrom
    /\ duplicates_count >= 1
    /\ \E i, j \in 1..Len(all_images) :
          i < j /\ SameHash(i, j) /\ ~Passes(i) /\ j \in Survivors

\* the step adds one term to the keyword filter, in exact mode, the minimum
\* rank unchanged
AddsTerm ==
    /\ ~partial_match
    /\ ~partial_match'
    /\ rank_var' = rank_var
    /\ LET old == FilterKeywords(keyword_entry)
           new == FilterKeywords(keyword_entry')
       IN Len(new) = Len(old) + 1 /\ SubSeq(new, 1, Len(old)) = old

\* C5 (as claimed): in exact mode, adding one more term to the keyword filter
\* never increases the size of the filtered set.
C5_AddTermShrinks ==
    [][AddsTerm => Len(filtered_images') <= Len(filtered_images)]_vars

\* C5 (amended): in exact mode, adding a term to an empty keyword filter
\* never increases the size of the filtered set, and adding one to a filter
\* that has terms never decreases it.
C5_AddTerm ==
    [][AddsTerm =>
         IF FilterKeywords(keyword_entry) = <<>>
         THEN Len(filtered_images') <= Len(filtered_images)
         ELSE Len(filtered_images') >= Len(filtered_images)]_vars

\* an exact filter of two terms that lets more records through than its
\* first term alone
C5_Witness ==
    /\ ~partial_match
    /\ Len(FilterKeywords(keyword_entry)) = 2
    /\ Len(filtered_images) >
         Len(Filtered(all_images, FilterKeywords(keyword_entry)[1],
                      rank_var, FALSE).filtered)

\* C6: with the keyword filter and the match mode unchanged, raising the
\* minimum rank never increases the size of the filtered set.
C6_RaiseRank ==
    [][(/\ keyword_entry' = keyword_entry
        /\ partial_match' = partial_match
        /\ rank_var' >= rank_var)
       => Len(filtered_images') <= Len(filtered_images)]_vars

\* a raised minimum rank under which fewer records are left than at rank 1
C6_Witness ==
    /\ rank_var > RankFrom
    /\ filtered_images # <<>>
    /\ Len(filtered_images) <
         Len(Filtered(all_images, keyword_entry, RankFrom,
                      partial_match).filtered)

----------------------------------------------------------------------------
(* Claims about the viewer's index and the passing set *)

\* current_index is a position of the filtered list, 0 when the list is empty
IndexInRange ==
    IF filtered_images = <<>> THEN current_index = 0
    ELSE 0 <= current_index /\ current_index < Len(filtered_images)

\* a step of one of the callbacks that change the filter
FilterChange == KeyRelease \/ ScaleMove \/ TogglePartial \/ ClearFilters

\* what the steps do to the index: a filter change resets it; previous at 0,
\* next at the last position and go-to outside the list leave it; previous
\* and next elsewhere move it by one; go-to lands inside the list
IndexSteps ==
    /\ FilterChange => current_index' = 0
    /\ (keyword_entry' # keyword_entry \/ rank_var' # rank_var
          \/ partial_match' # partial_match) => current_index' = 0
    /\ PrevImage =>
          current_index' = IF current_index = 0 THEN 0 ELSE current_index - 1
    /\ NextImage =>
          current_index' = IF current_index + 1 >= Len(filtered_images)
                           THEN current_index ELSE current_index + 1
    /\ GotoIndex =>
          \/ current_index' = current_index
          \/ 0 <= current_index' /\ current_index' < Len(filtered_images)
    /\ (GotoIndex /\ filtered_images = <<>>) => current_index' = current_index

\* C14: after any sequence of viewer operations current_index stays within
\* the filtered list (0 when it is empty); previous at index 0, next at the
\* last index and go-to with an index outside the list leave it unchanged,
\* and every filter change resets it to 0.
C14_IndexInRange == []IndexInRange /\ [][IndexSteps]_vars

\* the index stands on the last of several records
C14_Witness ==
    /\ Len(filtered_images) >= 2
    /\ current_index = Len(filtered_images) - 1
    /\ keyword_entry # <<>>

\* a term matches a record: equal to one of its keywords in exact mode, a
\* substring of one of them in partial mode, letter case ignored
TermMatches(term, rec) ==
    \E j \in 1..Len(rec.keywords) :
        IF partial_match
        THEN \E a \in 1..Len(rec.keywords[j]) + 1 :
                 \E b \in a - 1..Len(rec.keywords[j]) :
                     Lower(SubSeq(rec.keywords[j], a, b)) = Lower(term)
        ELSE Lower(rec.keywords[j]) = Lower(term)

\* the terms of the keyword entry: its comma-separated pieces, stripped, the
\* empty ones left out
EntryTerms ==
    LET pieces == SplitComma(keyword_entry)
    IN {Strip(pieces[i]) : i \in 1..Len(pieces)} \ {<<>>}

\* record i passes the filter, as the filter is described
PassesAsDescribed(i) ==
    /\ EntryTerms = {} \/ \E term \in EntryTerms : TermMatches(term, all_images[i])
    /\ all_images[i].rank >= rank_var

\* the passing records whose hash no earlier passing record has
FirstOfHash ==
    {i \in 1..Len(all_images) :
        /\ PassesAsDescribed(i)
        /\ \A j \in 1..i - 1 :
              PassesAsDescribed(j) =>
                  all_images[j].hash_code # all_images[i].hash_code}

\* C15: the passing set is recomputed from the full record set: a record
\* passes exactly when (the filter has no terms or one of its terms matches
\* the record's keywords, case-insensitively, by equality in exact mode and
\* as a substring in partial mode) and its rank is at least the minimum; the
\* filtered list is a function of the filter state and the record set alone.
C15_PassingSet ==
    /\ Range(filtered_images) = FirstOfHash
    /\ \A a, b \in 1..Len(filtered_images) :
          a < b => filtered_images[a] < filtered_images[b]
    /\ Len(filtered_images) + duplicates_count
          = Cardinality({i \in 1..Len(all_images) : PassesAsDescribed(i)})

\* a partial-mode filter that a record passes by a substring of a keyword of
\* another letter case, while another record fails
C15_Witness ==
    /\ partial_match
    /\ keyword_entry = <<"a", "t">>
    /\ \E i \in FirstOfHash : <<"C", "a", "t", "a", "l", "o", "g">> \in Range(all_images[i].keywords)
    /\ \E i \in 1..Len(all_images) : ~PassesAsDescribed(i)

----------------------------------------------------------------------------
(* Claims about what the viewer leaves alone *)

\* C13: no viewer operation (filter change, clear filters, previous, next,
\* go-to, zoom, fit-mode change, fullscreen toggle, copy keywords, open
\* externally) changes the full record list or any field of any record; only
\* the viewer's selection, filter and display state change.
C13_RecordsUnchanged == [][all_images' = all_images]_vars

\* every kind of operation has acted: a filter is set, the index has moved,
\* the display state differs from the initial one, keywords were copied and a
\* file was opened
C13_Witness ==
    /\ all_images = DisplayList
    /\ keyword_entry # <<>> /\ rank_var # RankFrom /\ partial_match
    /\ current_index > 0
    /\ zoom_percent # ZoomInitial /\ fit_mode = "actual" /\ fullscreen
    /\ clipboard # <<>> /\ opened # <<>>

----------------------------------------------------------------------------
(* Claims about the exit code *)

Exited == ex_pc \in {"exit0", "exit1"}

\* main took its viewer branch
ViewerMode == txt_files # <<>> /\ other = <<>>

\* no images in extraction mode, no records in viewer mode
NothingResolved == IF ViewerMode THEN all_data = <<>> ELSE imgs = <<>>

\* C12: the process exits with code 1 exactly when no images (extraction
\* mode) or no CSV records (viewer mode) were resolved, and with code 0 in
\* every other run.
C12_ExitOneIffNothing == Exited => (ex_pc = "exit1" <=> NothingResolved)

\* the viewer could not be started: Pillow is not installed, or the window
\* could not be created
ViewerNotStarted ==
    ViewerMode /\ (~PIL_AVAILABLE \/ TracebackLine \in Range(stderr_lines))

\* C12, as the code has it: exit code 1 exactly when nothing was resolved
\* or, in viewer mode, the viewer could not be started; exit code 0 in every
\* other run, the runs in which every request failed included.
C12_ExitCodes ==
    Exited => (ex_pc = "exit1" <=> (NothingResolved \/ ViewerNotStarted))

\* records were resolved, Pillow is missing, and the run has ended with 1
C12_Witness ==
    /\ ex_pc = "exit1"
    /\ ViewerMode /\ all_data # <<>> /\ ~PIL_AVAILABLE

----------------------------------------------------------------------------
(* Claims about a row written and read back *)

\* a field parse_csv_file keeps as a keyword
IsPlainKeyword(f) == ~HasRankToken(f) /\ ~IsHex64(f)

\* C18: the row a successful extraction writes, read back by parse_csv_file,
\* yields exactly one record whose hash is the file's hash, whose keyword
\* list holds neither the hash nor any RANK token, and whose keywords are the
\* de-duplicated sorted keywords that were written, in the same order.
C18_RoundTrip ==
    (kw_pc = "done" /\ csv_pc = "returned") =>
        /\ Len(out) = 1
        /\ out[1].filename = RoundTripImage
        /\ out[1].hash_code = sha256_hex
        /\ \A i \in 1..Len(out[1].keywords) :
              /\ out[1].keywords[i] # sha256_hex
              /\ ~HasRankToken(out[1].keywords[i])
        /\ out[1].keywords = SelectSeq(KeywordsOf(cleaned), IsPlainKeyword)
        /\ StrictlySortedByLower(out[1].keywords)

\* a row with a RANK token, a quoted keyword and a keyword with a line break
\* has gone round
C18_Witness ==
    /\ kw_pc = "done" /\ csv_pc = "returned"
    /\ \E i \in 1..Len(cleaned) : HasRankToken(cleaned[i])
    /\ \E i \in 1..Len(out[1].keywords) : "\n" \in Range(out[1].keywords[i])
    /\ \E i \in 1..Len(out[1].keywords) : "\"" \in Range(out[1].keywords[i])

====
